---- MODULE Spec2Model ----
(***************************************************************************)
(* Model of alphacsc/learn_d_z_multi.py: the objective evaluator           *)
(* compute_X_and_objective_multi and the alternating-minimisation driver   *)
(* learn_d_z_multi.                                                        *)
(*                                                                         *)
(* Shapes: one trial, one channel, one time sample, atoms of temporal      *)
(* support one, so that X is a number, an atom is a row <<u, v>> and the   *)
(* activation of an atom is a number.  Z_hat and uv_hat are sequences      *)
(* indexed by atom.                                                        *)
(*                                                                         *)
(* Units: regularisation weights are integers counting hundredths          *)
(* (reg = 100 is the weight 1.0, so reg / 100 is exact).  Objective values *)
(* count two-hundredths, so that 0.5 * residual^2 is an integer.           *)
(***************************************************************************)
EXTENDS Integers, Sequences, FiniteSets, TLC

\* ------------------------------------------------------------------ bounds
MaxIter == 2        \* largest iteration budget n_iter explored
MaxZ == 2           \* largest activation value a stage returns
MaxTick == 1        \* elapsed time of one stage call

\* ------------------------------------------------------- program constants
RegScale == 100     \* the 100 of "reg_ = reg / 100"
DictStageEps == 1   \* the eps=1e-8 of d_kwargs, counting 1e-8

\* ------------------------------------------------------------- input sets
AmpVals == {1, 2}                       \* entries of an unprojected atom
AtomCounts == {0, 1}                    \* n_atoms
\* reg: 1.0, 5.0, and -1.0 (a negative weight is never validated)
RegVals == {-RegScale, RegScale, 5 * RegScale}
XVals == {3}                            \* the data
EpsVals == {100}                        \* eps, in objective units
FloorVals == {500}                      \* stopping_pobj, when configured
VerboseVals == {1, 10}                  \* verbose (dots, full progress)
KnownSolversZ == {"l_bfgs"}
KnownSolversD == {"alternate"}
KnownConstraints == {"separate"}
Unknown == "unknown"

Rows == {<<u, v>> : u \in AmpVals, v \in AmpVals}
Banks(n) == [1..n -> Rows]
Activations(n) == [1..n -> 0..MaxZ]
Durations == {MaxTick}                  \* elapsed time of a stage call
InitBanks(n) == [1..n -> {<<2, 2>>}]    \* uv_init, when supplied

\* Python's None is the empty tuple, a present value v is <<v>>.
None == <<>>
Some(v) == <<v>>

VARIABLES
    \* arguments of learn_d_z_multi
    X, n_atoms, reg, n_iter, eps, stopping_pobj, uv_init, callback,
    solver_z, solver_d, uv_constraint, verbose,
    \* locals of learn_d_z_multi
    uv_hat, Z_hat, pobj, times, reg_, ii, d_kwargs,
    \* control
    pc, exit,
    \* the worker pool of "with Parallel(...) as parallel"
    parallel, acquired, released,
    \* observation: external calls made so far, warnings, the returned tuple
    calls, warned, result

args == <<X, n_atoms, reg, n_iter, eps, stopping_pobj, uv_init, callback,
          solver_z, solver_d, uv_constraint, verbose>>
locals == <<uv_hat, Z_hat, pobj, times, reg_, ii, d_kwargs>>
pool == <<parallel, acquired, released>>
vars == <<args, locals, pc, exit, pool, calls, warned, result>>

\* ----------------------------------------------------------------- helpers
RECURSIVE SeqSum(_)
SeqSum(s) == IF s = <<>> THEN 0 ELSE Head(s) + SeqSum(Tail(s))

Abs(x) == IF x < 0 THEN -x ELSE x
Max(a, b) == IF a >= b THEN a ELSE b
Last(s) == s[Len(s)]

\* ------------------------------------------------ external collaborators
\* prox_uv, 'separate' mode: u and v are each divided by max(1, norm), and
\* the per-atom factor is the product of the two.
prox_row(row) ==
    [uv |-> <<row[1] \div Max(1, Abs(row[1])), row[2] \div Max(1, Abs(row[2]))>>,
     norm |-> Max(1, Abs(row[1])) * Max(1, Abs(row[2]))]

prox_uv(uv, constraint) ==
    [uv |-> [k \in 1..Len(uv) |-> prox_row(uv[k]).uv],
     norm_uv |-> [k \in 1..Len(uv) |-> prox_row(uv[k]).norm]]

\* construct_X_multi(Z_hat, _get_D(uv_hat, n_chan)): sum over atoms of
\* activation times the rank-one atom u v^T.
construct_X_multi(Z, uv) ==
    SeqSum([k \in 1..Len(uv) |-> Z[k] * uv[k][1] * uv[k][2]])

\* A stage given a name it does not know raises.
prox_uv_rejects(constraint) == constraint \notin KnownConstraints
update_z_multi_rejects(solver) == solver \notin KnownSolversZ
func_d_rejects(solver, constraint) ==
    solver \notin KnownSolversD \/ constraint \notin KnownConstraints

\* _support_least_square keeps the support of Z and re-solves amplitudes.
support_least_square_results(Z) ==
    {R \in Activations(Len(Z)) : \A k \in 1..Len(Z) : (Z[k] = 0) => (R[k] = 0)}

\* Mutant: the penalty is weighted with the warm-up weight reg / 100.
objective_warm(X_, X_hat, Z, reg__) ==
    LET residual == X_ - X_hat
    IN  RegScale * (residual * residual) + 2 * (reg__ \div RegScale) * SeqSum(Z)

\* ------------------------------------------------------------- objective
objective(X_, X_hat, Z, reg__) ==
    LET residual == X_ - X_hat
    IN  RegScale * (residual * residual) + 2 * reg__ * SeqSum(Z)

\* The evaluator body on a heap of array objects: Zref and uvref name the
\* objects its local names Z_hat and uv_hat are bound to.  prox_uv and *=
\* write through those references.
evaluate_on(X_, heap, Zref, uvref, reg__, feasible_evaluation, constraint) ==
    LET p == prox_uv(heap[uvref], constraint)
        heap1 == IF feasible_evaluation
                 THEN [heap EXCEPT ![uvref] = p.uv,
                                   ![Zref] = [k \in 1..Len(heap[Zref]) |->
                                                 heap[Zref][k] * p.norm_uv[k]]]
                 ELSE heap
        X_hat == construct_X_multi(heap1[Zref], heap1[uvref])
    IN  [obj |-> objective(X_, X_hat, heap1[Zref], reg__),
         Z_arg |-> heap1["Z_arg"],
         uv_arg |-> heap1["uv_arg"]]

\* Mutant: the copies are dropped, the projection and the rescaling act on
\* the caller's arrays.
compute_X_and_objective_multi_nocopy(X_, Z, uv, reg__, feasible_evaluation, constraint) ==
    evaluate_on(X_, [Z_arg |-> Z, uv_arg |-> uv, Z_copy |-> Z, uv_copy |-> uv],
                "Z_arg", "uv_arg", reg__, feasible_evaluation, constraint)

\* compute_X_and_objective_multi: the objective value, and the contents of
\* the caller's two arrays after the call.
compute_X_and_objective_multi(X_, Z, uv, reg__, feasible_evaluation, constraint) ==
    LET heap == [Z_arg |-> Z, uv_arg |-> uv, Z_copy |-> Z, uv_copy |-> uv]
    IN  IF feasible_evaluation
        THEN evaluate_on(X_, heap, "Z_copy", "uv_copy", reg__, TRUE, constraint)
        ELSE evaluate_on(X_, heap, "Z_arg", "uv_arg", reg__, FALSE, constraint)

\* ------------------------------------------------- decisions of the driver
\* "reg_ = reg / 100"
warm_up_reg(reg__) == reg__ \div RegScale

\* Mutant: the warm-up weight is kept for the whole run.
reg_at_never(i, current, full) == current

\* "if ii == 1: reg_ = reg"
reg_at(i, current, full) == IF i = 1 THEN full ELSE current

\* Mutant: "while True" in place of the bounded for loop.
range_has_next_always(i, n) == TRUE

\* Mutant: the loop runs one iteration too many.
range_has_next_inclusive(i, n) == i + 1 <= n

\* "for ii in range(n_iter)": is there an iteration after index i
range_has_next(i, n) == i + 1 < n

\* Mutant: an empty tensor is not taken for all-zero.
all_zero_nonempty(Z) == Len(Z) > 0 /\ \A k \in 1..Len(Z) : Z[k] = 0

\* Mutant: the degenerate check never fires.
all_zero_never(Z) == FALSE

\* "len(Z_hat.nonzero()[0]) == 0"
all_zero(Z) == \A k \in 1..Len(Z) : Z[k] = 0

\* Mutant: the convergence check is dropped.
converged_never(trace, eps_) == FALSE

\* Mutant: the decrease is measured over the whole outer iteration.
converged_full_iteration(trace, eps_) ==
    trace[Len(trace) - 2] - trace[Len(trace)] < eps_

\* "pobj[-2] - pobj[-1] < eps"
converged(trace, eps_) == trace[Len(trace) - 1] - trace[Len(trace)] < eps_

\* Mutant: an entry equal to the floor stops the loop.
target_reached_or_equal(trace, floor) ==
    floor # None /\ trace[Len(trace)] <= floor[1]

\* "stopping_pobj is not None and pobj[-1] < stopping_pobj"
target_reached(trace, floor) ==
    floor # None /\ trace[Len(trace)] < floor[1]

\* Mutant: the hook is never taken for callable.
callable_never(cb) == FALSE

\* "callable(callback)"
callable(cb) == cb # None

\* Mutant: the driver's evaluations pass feasible_evaluation=False.
feasible_evaluation_raw == FALSE

\* the feasible_evaluation argument the driver's calls of the evaluator
\* leave to its default
feasible_evaluation_default == TRUE

\* -------------------------------------------------------------- the driver
\* One external call as the log records it: the callee, the iteration, the
\* arguments it was given, and what it returned (None when it raised).
Call(op, i, r, uv, Z, p, f, ret, raised) ==
    [op |-> op, ii |-> i, reg |-> r, uv |-> uv, Z |-> Z, parallel |-> p,
     feasible |-> f, ret |-> ret, raised |-> raised]

Init ==
    /\ X \in XVals
    /\ n_atoms \in AtomCounts
    /\ reg \in RegVals
    /\ n_iter \in 0..MaxIter
    /\ eps \in EpsVals
    /\ stopping_pobj \in {None} \cup {Some(f) : f \in FloorVals}
    /\ uv_init \in {None} \cup {Some(b) : b \in InitBanks(n_atoms)}
    /\ callback \in {None, Some("observer")}
    /\ solver_z \in KnownSolversZ \cup {Unknown}
    /\ solver_d \in KnownSolversD \cup {Unknown}
    /\ uv_constraint \in KnownConstraints \cup {Unknown}
    /\ verbose \in VerboseVals
    /\ uv_hat = <<>>
    /\ Z_hat = <<>>
    /\ pobj = <<>>
    /\ times = <<>>
    /\ reg_ = 0
    /\ ii = -1
    /\ d_kwargs = None
    /\ pc = "init"
    /\ exit = "none"
    /\ parallel = 0
    /\ acquired = 0
    /\ released = 0
    /\ calls = <<>>
    /\ warned = 0
    /\ result = None

\* Mutant: the pool is not held by a with statement, an error leaves it open.
Raise_leaks(inside_with) ==
    /\ pc' = "raised"
    /\ exit' = "error"
    /\ UNCHANGED <<parallel, acquired, released, warned, result>>

\* An error propagates out of the function; inside the with block the pool
\* is released on the way out.
Raise(inside_with) ==
    /\ pc' = "raised"
    /\ exit' = "error"
    /\ released' = IF inside_with THEN released + 1 ELSE released
    /\ UNCHANGED <<parallel, acquired, warned, result>>

\* "break": leaves the for loop and with it the with block.
Break(reason) ==
    /\ pc' = "lstsq"
    /\ exit' = reason
    /\ released' = released + 1
    /\ UNCHANGED <<parallel, acquired, result>>

\* Mutant: the initial bank becomes the working bank without the projection.
Initialize_unprojected ==
    /\ pc = "init"
    /\ \E draw \in Banks(n_atoms) :
         LET uv0 == IF uv_init = None THEN draw ELSE uv_init[1]
             Z0 == [k \in 1..n_atoms |-> 0]
             r == compute_X_and_objective_multi(X, Z0, uv0, reg,
                      feasible_evaluation_default, uv_constraint)
         IN  /\ calls' = Append(calls, Call("objective", -1, reg, uv0, Z0, 0,
                                  feasible_evaluation_default, Some(r.obj), FALSE))
             /\ uv_hat' = r.uv_arg
             /\ Z_hat' = r.Z_arg
             /\ pobj' = Append(pobj, r.obj)
             /\ times' = Append(times, 0)
             /\ reg_' = warm_up_reg(reg)
             /\ pc' = "with"
             /\ UNCHANGED <<ii, d_kwargs, exit, pool, warned, result>>
    /\ UNCHANGED args

\* lines 129-150
Initialize ==
    /\ pc = "init"
    /\ \E draw \in Banks(n_atoms), fail \in {"none", "prox_uv", "objective"} :
         LET uv0 == IF uv_init = None THEN draw ELSE uv_init[1]
             uv1 == prox_uv(uv0, uv_constraint).uv
             Z0 == [k \in 1..n_atoms |-> 0]
             r == compute_X_and_objective_multi(X, Z0, uv1, reg,
                      feasible_evaluation_default, uv_constraint)
             c1(bad) == Call("prox_uv", -1, 0, uv0, <<>>, 0, FALSE,
                             IF bad THEN None ELSE Some(uv1), bad)
             c2(bad) == Call("objective", -1, reg, uv1, Z0, 0,
                             feasible_evaluation_default,
                             IF bad THEN None ELSE Some(r.obj), bad)
         IN  IF prox_uv_rejects(uv_constraint) \/ fail = "prox_uv"
             THEN /\ calls' = Append(calls, c1(TRUE))
                  /\ Raise(FALSE)
                  /\ UNCHANGED <<locals, warned>>
             ELSE IF fail = "objective"
             THEN /\ calls' = calls \o <<c1(FALSE), c2(TRUE)>>
                  /\ uv_hat' = uv1
                  /\ Z_hat' = Z0
                  /\ Raise(FALSE)
                  /\ UNCHANGED <<pobj, times, reg_, ii, d_kwargs, warned>>
             ELSE /\ calls' = calls \o <<c1(FALSE), c2(FALSE)>>
                  /\ uv_hat' = r.uv_arg
                  /\ Z_hat' = r.Z_arg
                  /\ pobj' = Append(pobj, r.obj)
                  /\ times' = Append(times, 0)
                  /\ reg_' = warm_up_reg(reg)
                  /\ pc' = "with"
                  /\ UNCHANGED <<ii, d_kwargs, exit, pool, warned, result>>
    /\ UNCHANGED args

\* line 151: "with Parallel(n_jobs=n_jobs) as parallel"
EnterParallel ==
    /\ pc = "with"
    /\ acquired' = acquired + 1
    /\ parallel' = acquired + 1
    /\ pc' = "for"
    /\ UNCHANGED <<args, locals, exit, released, calls, warned, result>>

\* lines 152-160: the loop header, the warm-up switch (the prints change
\* no state)
LoopHead ==
    /\ pc = "for"
    /\ IF range_has_next(ii, n_iter)
       THEN /\ ii' = ii + 1
            /\ reg_' = reg_at(ii + 1, reg_, reg)
            /\ pc' = "update_z"
            /\ UNCHANGED <<uv_hat, Z_hat, pobj, times, d_kwargs, exit, pool,
                           warned, result>>
       ELSE /\ Break("budget")
            /\ UNCHANGED <<locals, warned>>
    /\ UNCHANGED <<args, calls>>

\* lines 162-183: the Sparse-Code Stage, the degenerate check, the
\* objective after the sparse update
SparseStage ==
    /\ pc = "update_z"
    /\ \E Znew \in Activations(n_atoms), dt \in Durations,
          fail \in {"none", "update_z_multi", "objective"} :
         LET r == compute_X_and_objective_multi(X, Znew, uv_hat, reg,
                      feasible_evaluation_default, uv_constraint)
             c1(bad) == Call("update_z_multi", ii, reg_, uv_hat, Z_hat, parallel,
                             FALSE, IF bad THEN None ELSE Some(Znew), bad)
             c2(bad) == Call("objective", ii, reg, uv_hat, Znew, 0,
                             feasible_evaluation_default,
                             IF bad THEN None ELSE Some(r.obj), bad)
         IN  IF update_z_multi_rejects(solver_z) \/ fail = "update_z_multi"
             THEN /\ calls' = Append(calls, c1(TRUE))
                  /\ Raise(TRUE)
                  /\ UNCHANGED locals
             ELSE IF all_zero(Znew)
             THEN /\ calls' = Append(calls, c1(FALSE))
                  /\ Z_hat' = Znew
                  /\ times' = Append(times, dt)
                  /\ warned' = warned + 1
                  /\ Break("degenerate")
                  /\ UNCHANGED <<uv_hat, pobj, reg_, ii, d_kwargs>>
             ELSE IF fail = "objective"
             THEN /\ calls' = calls \o <<c1(FALSE), c2(TRUE)>>
                  /\ Z_hat' = Znew
                  /\ times' = Append(times, dt)
                  /\ Raise(TRUE)
                  /\ UNCHANGED <<uv_hat, pobj, reg_, ii, d_kwargs>>
             ELSE /\ calls' = calls \o <<c1(FALSE), c2(FALSE)>>
                  /\ Z_hat' = r.Z_arg
                  /\ uv_hat' = r.uv_arg
                  /\ times' = Append(times, dt)
                  /\ pobj' = Append(pobj, r.obj)
                  /\ pc' = "update_d"
                  /\ UNCHANGED <<reg_, ii, d_kwargs, exit, pool, warned, result>>
    /\ UNCHANGED args

\* Mutant: the tolerance handed to the Dictionary Stage is scaled by the
\* verbosity.
make_d_kwargs_scaled(v) == [verbose |-> v, eps |-> DictStageEps * v]

\* lines 186-187: "d_kwargs = dict(verbose=verbose, eps=1e-8)", then
\* "d_kwargs.update(solver_d_kwargs)" with the default empty solver_d_kwargs
make_d_kwargs(v) == [verbose |-> v, eps |-> DictStageEps]

\* lines 185-199 with the keyword arguments of func_d given: the Dictionary
\* Stage, the objective after it
DictStageTo(kw) ==
    /\ pc = "update_d"
    /\ d_kwargs' = Some(kw)
    /\ \E uvnew \in Banks(n_atoms), dt \in Durations,
          fail \in {"none", "func_d", "objective"} :
         LET r == compute_X_and_objective_multi(X, Z_hat, uvnew, reg,
                      feasible_evaluation_default, uv_constraint)
             c1(bad) == Call("func_d", ii, 0, uv_hat, Z_hat, 0, FALSE,
                             IF bad THEN None ELSE Some(uvnew), bad)
             c2(bad) == Call("objective", ii, reg, uvnew, Z_hat, 0,
                             feasible_evaluation_default,
                             IF bad THEN None ELSE Some(r.obj), bad)
         IN  IF func_d_rejects(solver_d, uv_constraint) \/ fail = "func_d"
             THEN /\ calls' = Append(calls, c1(TRUE))
                  /\ Raise(TRUE)
                  /\ UNCHANGED <<uv_hat, Z_hat, pobj, times, reg_, ii>>
             ELSE IF fail = "objective"
             THEN /\ calls' = calls \o <<c1(FALSE), c2(TRUE)>>
                  /\ uv_hat' = uvnew
                  /\ times' = Append(times, dt)
                  /\ Raise(TRUE)
                  /\ UNCHANGED <<Z_hat, pobj, reg_, ii>>
             ELSE /\ calls' = calls \o <<c1(FALSE), c2(FALSE)>>
                  /\ uv_hat' = r.uv_arg
                  /\ Z_hat' = r.Z_arg
                  /\ times' = Append(times, dt)
                  /\ pobj' = Append(pobj, r.obj)
                  /\ pc' = "callback"
                  /\ UNCHANGED <<reg_, ii, exit, pool, warned, result>>
    /\ UNCHANGED args

\* lines 185-199 at the verbosity v
DictStageWith(v) == DictStageTo(make_d_kwargs(v))

\* lines 185-199
DictStage == DictStageWith(verbose)

\* lines 201-202
CallbackStep ==
    /\ pc = "callback"
    /\ IF callable(callback)
       THEN \E raises \in BOOLEAN :
              /\ calls' = Append(calls, Call("callback", ii, reg, uv_hat, Z_hat,
                                             0, FALSE, None, raises))
              /\ IF raises
                 THEN Raise(TRUE)
                 ELSE /\ pc' = "check"
                      /\ UNCHANGED <<exit, pool, warned, result>>
       ELSE /\ pc' = "check"
            /\ UNCHANGED <<exit, pool, warned, result, calls>>
    /\ UNCHANGED <<args, locals>>

\* lines 204-208
StoppingChecks ==
    /\ pc = "check"
    /\ IF converged(pobj, eps)
       THEN Break("converged")
       ELSE IF target_reached(pobj, stopping_pobj)
       THEN Break("target")
       ELSE /\ pc' = "for"
            /\ UNCHANGED <<exit, pool, result>>
    /\ UNCHANGED <<args, locals, calls, warned>>

\* Mutant: the activations are returned as the loop left them.
Finish_unrefined ==
    /\ pc = "lstsq"
    /\ pc' = "done"
    /\ result' = Some(<<pobj, times, uv_hat, Z_hat>>)
    /\ UNCHANGED <<args, locals, exit, pool, calls, warned>>

\* lines 210-212
Finish ==
    /\ pc = "lstsq"
    /\ \E R \in support_least_square_results(Z_hat), raises \in BOOLEAN :
         /\ calls' = Append(calls, Call("_support_least_square", ii, 0, uv_hat,
                                        Z_hat, 0, FALSE,
                                        IF raises THEN None ELSE Some(R), raises))
         /\ IF raises
            THEN /\ pc' = "raised"
                 /\ exit' = "error"
                 /\ UNCHANGED <<Z_hat, result>>
            ELSE /\ pc' = "done"
                 /\ Z_hat' = R
                 /\ result' = Some(<<pobj, times, uv_hat, R>>)
                 /\ UNCHANGED exit
    /\ UNCHANGED <<args, uv_hat, pobj, times, reg_, ii, d_kwargs, pool, warned>>

Next ==
    \/ Initialize
    \/ EnterParallel
    \/ LoopHead
    \/ SparseStage
    \/ DictStage
    \/ CallbackStep
    \/ StoppingChecks
    \/ Finish

Spec == Init /\ [][Next]_vars

\* A run of the driver goes on as long as it has a statement to execute:
\* each stage call, evaluation and callback returns or raises.
FairSpec == Spec /\ WF_vars(Next)

\* The steps of the driver with every read of verbose replaced by v: only
\* line 186 reads it for something other than printing.
NextWith(v) ==
    \/ Initialize
    \/ EnterParallel
    \/ LoopHead
    \/ SparseStage
    \/ DictStageWith(v)
    \/ CallbackStep
    \/ StoppingChecks
    \/ Finish

\* The same, whatever verbosity func_d is told.
NextUpToVerboseKeyword(v) ==
    \/ Initialize
    \/ EnterParallel
    \/ LoopHead
    \/ SparseStage
    \/ \E level \in VerboseVals :
         DictStageTo([make_d_kwargs(v) EXCEPT !.verbose = level])
    \/ CallbackStep
    \/ StoppingChecks
    \/ Finish

\* ------------------------------------------------------------ observations
Returned == pc = "done"
ReturnedPobj == result[1][1]
ReturnedTimes == result[1][2]
ReturnedUv == result[1][3]
ReturnedZ == result[1][4]

CallIndices(op) == {i \in 1..Len(calls) : calls[i].op = op}
StageCalled(op) == CallIndices(op) # {}
\* outer iterations that ran both stages
CompletedIterations ==
    Cardinality({i \in CallIndices("func_d") : ~calls[i].raised})
IsZeroTensor(Z) == \A k \in DOMAIN Z : Z[k] = 0
InLoop == pc \in {"for", "update_z", "update_d", "callback", "check"}
LastCall == calls[Len(calls)]
\* what the last call of op that returned gave back, or default
LastReturn(op, default) ==
    LET S == {i \in CallIndices(op) : ~calls[i].raised}
    IN  IF S = {} THEN default
        ELSE calls[CHOOSE i \in S : \A j \in S : j <= i].ret[1]
ZeroTensor == [k \in 1..n_atoms |-> 0]

\* ------------------------------------------------------------------ claims

\* C1: whenever the driver returns, the objective trace has length
\* 1 + 2 * (outer iterations run), the elapsed-time trace has the same
\* length, and its first entry is 0.
C1_TraceLengths ==
    Returned =>
        /\ Len(ReturnedPobj) = 1 + 2 * CompletedIterations
        /\ Len(ReturnedTimes) = Len(ReturnedPobj)
        /\ ReturnedTimes[1] = 0

\* C2: when the Sparse-Code Stage returns an all-zero tensor the driver
\* warns once and leaves the loop in that very step, appending no objective
\* and calling no Dictionary Stage in that iteration; when this happens in
\* iteration 0 the returned trace has one entry and the Dictionary Stage was
\* never called.
C2_DegenerateBreak ==
    /\ [][(pc = "update_z" /\ pc' # "raised" /\ IsZeroTensor(Z_hat'))
            => /\ warned' = warned + 1
               /\ pc' = "lstsq"
               /\ pobj' = pobj
               /\ \A i \in 1..Len(calls') :
                     calls'[i].op = "func_d" => calls'[i].ii < ii]_vars
    /\ [](Returned /\ warned > 0 /\ ii = 0
            => Len(ReturnedPobj) = 1 /\ ~StageCalled("func_d"))
    /\ [](warned > 0 => pc \in {"lstsq", "done", "raised"})

C2_Witness ==
    /\ Returned /\ warned = 1 /\ ii = 0 /\ n_atoms > 0
    /\ Len(ReturnedPobj) = 1
    /\ \E i \in CallIndices("update_z_multi") : IsZeroTensor(calls[i].ret[1])

\* C3: with n_iter = 0 no stage is ever called, the returned trace has one
\* entry, and the returned activations are what _support_least_square gave
\* back for the all-zero tensor and the projected initial atom bank.
C3_ZeroBudget ==
    n_iter = 0 =>
        /\ ~StageCalled("update_z_multi")
        /\ ~StageCalled("func_d")
        /\ Returned =>
              /\ Len(ReturnedPobj) = 1
              /\ LastCall.op = "_support_least_square"
              /\ LastCall.Z = ZeroTensor
              /\ calls[1].op = "prox_uv"
              /\ LastCall.uv = calls[1].ret[1]
              /\ ReturnedZ = LastCall.ret[1]

C3_Witness ==
    /\ Returned /\ n_iter = 0 /\ n_atoms > 0 /\ uv_init # None
    /\ LastCall.op = "_support_least_square"
    /\ LastCall.uv # uv_init[1]

\* C4: on every return, _support_least_square has been called exactly once,
\* as the last call and after the loop, on the final atom bank and the last
\* activation tensor, and what it gave back is the returned activation
\* tensor; the returned atom bank is that final bank.
C4_RefineOnce ==
    /\ ~(Returned \/ pc = "raised") => ~StageCalled("_support_least_square")
    /\ Returned =>
          /\ Cardinality(CallIndices("_support_least_square")) = 1
          /\ LastCall.op = "_support_least_square"
          /\ exit \in {"budget", "degenerate", "converged", "target"}
          /\ LastCall.uv = LastReturn("func_d", LastReturn("prox_uv", <<>>))
          /\ LastCall.Z = LastReturn("update_z_multi", ZeroTensor)
          /\ ReturnedUv = LastCall.uv
          /\ ReturnedZ = LastCall.ret[1]
          /\ ReturnedPobj = pobj /\ ReturnedTimes = times

C4_Witness ==
    /\ Returned /\ exit = "target"
    /\ LastCall.op = "_support_least_square"
    /\ ReturnedZ # LastCall.Z

\* C5: the pool is acquired once, before iteration 0, is held (never
\* re-created, never released) for as long as the loop runs, is the pool
\* every Sparse-Code Stage call receives, and has been released exactly once
\* when the loop is left by exhaustion, by a break, or by an error of a
\* stage, of an objective evaluation in the loop or of the callback.
C5_PoolLifecycle ==
    /\ acquired <= 1 /\ released <= acquired
    /\ pc \in {"init", "with"} => acquired = 0
    /\ InLoop => acquired = 1 /\ released = 0
    /\ \A i \in CallIndices("update_z_multi") :
          calls[i].parallel = parallel /\ parallel # 0
    /\ pc \in {"lstsq", "done"} => acquired = 1 /\ released = 1
    /\ pc = "raised" =>
          /\ released = acquired
          /\ LastCall.ii >= 0 => acquired = 1 /\ released = 1

C5_Witness ==
    /\ pc = "raised" /\ released = 1
    /\ LastCall.op = "callback" /\ LastCall.ii = 1
    /\ \A i \in CallIndices("update_z_multi") : calls[i].parallel = 1

\* C6 as stated: with a floor configured, the loop is left at the end of any
\* iteration whose last trace entry is at or below the floor, the entry
\* equal to the floor included; without a floor the target check never
\* leaves the loop.
C6_TargetAtOrBelow ==
    [][pc = "check" =>
         /\ (stopping_pobj # None /\ pobj[Len(pobj)] <= stopping_pobj[1])
               => pc' = "lstsq"
         /\ stopping_pobj = None => exit' # "target"]_vars

\* C6 as amended: with a floor configured, the loop is left at the end of
\* any iteration whose last trace entry is strictly below the floor; an
\* entry equal to the floor does not make the target check fire (the loop
\* goes on unless the convergence check stops it); without a floor the
\* target check never leaves the loop.
C6_TargetStrictlyBelow ==
    [][pc = "check" =>
         LET L == Len(pobj) IN
         /\ (stopping_pobj # None /\ pobj[L] < stopping_pobj[1])
               => pc' = "lstsq"
         /\ exit' = "target"
               => stopping_pobj # None /\ pobj[L] < stopping_pobj[1]
         /\ (stopping_pobj # None /\ pobj[L] = stopping_pobj[1]
                /\ pobj[L - 1] - pobj[L] >= eps)
               => pc' = "for" /\ exit' = "none"
         /\ stopping_pobj = None => exit' # "target"]_vars

C6_Witness ==
    /\ pc = "for" /\ ii >= 0 /\ exit = "none"
    /\ stopping_pobj # None
    /\ pobj[Len(pobj)] = stopping_pobj[1]

\* C7: at the end of an outer iteration the loop is left if and only if the
\* objective after this iteration's sparse update minus the objective after
\* its dictionary update is below eps, or the target check fires; the
\* entry left by the previous iteration plays no part.
C7_ConvergenceCheck ==
    [][pc = "check" =>
         LET L == Len(pobj) IN
         /\ L = 2 * ii + 3
         /\ LastCall.op \in {"objective", "callback"}
         /\ pc' = "lstsq" <=>
               \/ pobj[L - 1] - pobj[L] < eps
               \/ stopping_pobj # None /\ pobj[L] < stopping_pobj[1]
         /\ exit' = "converged" <=> pobj[L - 1] - pobj[L] < eps
         /\ pc' \in {"lstsq", "for"}]_vars

C7_Witness ==
    /\ pc = "lstsq" /\ exit = "converged" /\ ii = 1
    /\ pobj[Len(pobj) - 1] - pobj[Len(pobj)] < eps
    /\ pobj[Len(pobj) - 2] - pobj[Len(pobj)] >= eps

\* C8: the Sparse-Code Stage receives reg / 100 in outer iteration 0 and
\* the full reg in every later outer iteration, once per iteration.
C8_WarmUp ==
    /\ \A i \in CallIndices("update_z_multi") :
          IF calls[i].ii = 0
          THEN RegScale * calls[i].reg = reg
          ELSE calls[i].ii >= 1 /\ calls[i].reg = reg
    /\ \A i, j \in CallIndices("update_z_multi") :
          calls[i].ii = calls[j].ii => i = j

C8_Witness ==
    /\ reg > 0
    /\ \E i, j \in CallIndices("update_z_multi") :
          /\ calls[i].ii = 0 /\ calls[i].reg # reg
          /\ calls[j].ii = 1 /\ calls[j].reg = reg

\* C9: a configuration error (a negative regularisation weight, a zero atom
\* count, an unknown constraint mode or solver name) makes the driver fail
\* before any outer iteration begins: no iteration is entered, no stage is
\* called, nothing is returned.
ConfigurationError ==
    \/ reg < 0
    \/ n_atoms = 0
    \/ solver_z \notin KnownSolversZ
    \/ solver_d \notin KnownSolversD
    \/ uv_constraint \notin KnownConstraints

C9_FailBeforeIteration ==
    ConfigurationError =>
        /\ ii = -1
        /\ ~StageCalled("update_z_multi")
        /\ ~StageCalled("func_d")
        /\ ~Returned

\* C10: an evaluation with feasible_evaluation = True leaves the atom bank
\* and the activation tensor it was called with as they were.
C10_EvaluatorLeavesArguments ==
    (calls # <<>> /\ LastCall.op = "objective" /\ LastCall.feasible
        /\ ~LastCall.raised)
    => /\ Z_hat = LastCall.Z
       /\ uv_hat = LastCall.uv

C10_Witness ==
    /\ calls # <<>> /\ LastCall.op = "objective" /\ LastCall.feasible
    /\ ~LastCall.raised
    /\ \E k \in 1..n_atoms : LastCall.uv[k] = <<2, 2>> /\ LastCall.Z[k] = 1
    /\ Z_hat = LastCall.Z

SparseCost(c, Z) == objective(X, construct_X_multi(Z, c.uv), Z, c.reg)

\* Every stage call so far returned a minimiser of its own subproblem: the
\* Sparse-Code Stage over the activations, the Dictionary Stage over the
\* feasible atom banks.
StagesExact ==
    /\ \A i \in CallIndices("update_z_multi") :
          ~calls[i].raised =>
             \A Z \in Activations(n_atoms) :
                SparseCost(calls[i], calls[i].ret[1]) <= SparseCost(calls[i], Z)
    /\ \A i \in CallIndices("func_d") :
          ~calls[i].raised =>
             LET b == calls[i].ret[1]
                 feasible == {f \in Banks(n_atoms) : prox_uv(f, uv_constraint).uv = f}
             IN  /\ b \in feasible
                 /\ \A f \in feasible :
                       (X - construct_X_multi(calls[i].Z, b)) ^ 2
                          <= (X - construct_X_multi(calls[i].Z, f)) ^ 2

\* C12: in a run that does not hit the degenerate all-zero condition (and
\* in which each stage returned a minimiser of its subproblem), no entry of
\* the objective trace exceeds the entry before it by more than eps, the
\* entry after the warm-up sparse update of iteration 0 against the
\* initial entry included.
C12_MonotoneTrace ==
    (warned = 0 /\ StagesExact) =>
        \A k \in 1..(Len(pobj) - 1) : pobj[k + 1] - pobj[k] <= eps

\* the objective evaluations made inside the outer loop that returned
LoopEvaluations ==
    {i \in CallIndices("objective") : calls[i].ii >= 0 /\ ~calls[i].raised}

\* the objective of the atoms and activations exactly as handed over
RawValue(c) ==
    RegScale * (X - construct_X_multi(c.Z, c.uv)) ^ 2 + 2 * c.reg * SeqSum(c.Z)

\* the objective of the projected atoms and the activations rescaled by the
\* per-atom norm factor
FeasibleValue(c) ==
    LET p == prox_uv(c.uv, uv_constraint)
        Zs == [k \in 1..Len(c.Z) |-> c.Z[k] * p.norm_uv[k]]
    IN  RegScale * (X - construct_X_multi(Zs, p.uv)) ^ 2 + 2 * c.reg * SeqSum(Zs)

\* C13 as stated: both objective evaluations of an outer iteration are made
\* in raw mode, on the working atom bank and activations as they are: no
\* projection of the atoms, no rescaling of the activations.
C13_RawEvaluations ==
    \A i \in LoopEvaluations :
        /\ ~calls[i].feasible
        /\ calls[i].ret[1] = RawValue(calls[i])

\* C13 as amended: both objective evaluations of an outer iteration are
\* made in feasibility mode (feasible_evaluation is left at its default):
\* the value appended to the trace is the objective of the projected atoms
\* and the rescaled activations, computed on copies, and the working atom
\* bank and activations are the ones handed to the evaluator, unchanged.
C13_FeasibleEvaluations ==
    /\ \A i \in LoopEvaluations :
          /\ calls[i].feasible
          /\ calls[i].ret[1] = FeasibleValue(calls[i])
    /\ (calls # <<>> /\ Len(calls) \in LoopEvaluations) =>
          /\ Last(pobj) = FeasibleValue(LastCall)
          /\ uv_hat = LastCall.uv /\ Z_hat = LastCall.Z

C13_Witness ==
    \E i \in LoopEvaluations :
        /\ calls[i - 1].op = "func_d"
        /\ prox_uv(calls[i].uv, uv_constraint).uv # calls[i].uv
        /\ calls[i].ret[1] # RawValue(calls[i])
        /\ pobj[Len(pobj)] = calls[i].ret[1]
        /\ pc = "callback"

\* the objective evaluations that returned, in call order
ObjectiveReturns ==
    SelectSeq(calls, LAMBDA c : c.op = "objective" /\ ~c.raised)

\* C14: every objective evaluation (the initial one and both of every
\* outer iteration, iteration 0 included) is given the full weight reg, every
\* entry of the trace is the objective at the full weight reg and not at
\* the warm-up weight, and the callback is given the full weight reg.
C14_FullWeight ==
    /\ \A i \in CallIndices("objective") \cup CallIndices("callback") :
          calls[i].reg = reg
    /\ Len(pobj) = Len(ObjectiveReturns)
    /\ \A k \in 1..Len(pobj) :
          pobj[k] = FeasibleValue([ObjectiveReturns[k] EXCEPT !.reg = reg])

C14_Witness ==
    /\ pc = "check" /\ ii = 0 /\ reg_ # reg
    /\ LastCall.op = "callback" /\ LastCall.reg = reg
    /\ Len(pobj) = 3
    /\ \A k \in 2..3 :
          pobj[k] # FeasibleValue([ObjectiveReturns[k] EXCEPT !.reg = reg_])

\* the second objective evaluations of outer iterations that returned: the
\* ones that follow a Dictionary Stage call
SecondEvaluations ==
    {i \in LoopEvaluations : calls[i - 1].op = "func_d"}

\* C15: with a callback configured, it is called once per outer iteration
\* that completed its dictionary update, right after that iteration's
\* second objective evaluation and before the convergence and target
\* checks, the iteration that stops the loop included; it is not called in
\* an iteration that ends in the degenerate break; when it raises, no
\* further call is made and nothing is returned.
C15_CallbackPlacement ==
    callback # None =>
        /\ \A i \in CallIndices("callback") :
              /\ (i - 1) \in SecondEvaluations
              /\ calls[i - 1].ii = calls[i].ii
              /\ calls[i].uv = calls[i - 1].uv /\ calls[i].Z = calls[i - 1].Z
              /\ calls[i].raised =>
                    i = Len(calls) /\ pc = "raised" /\ result = None
        /\ \A i, j \in CallIndices("callback") :
              calls[i].ii = calls[j].ii => i = j
        /\ \A i \in SecondEvaluations :
              IF i = Len(calls) THEN pc = "callback"
              ELSE calls[i + 1].op = "callback"
        /\ pc = "check" =>
              LastCall.op = "callback" /\ LastCall.ii = ii /\ ~LastCall.raised
        /\ exit \in {"converged", "target"} =>
              \E i \in CallIndices("callback") : calls[i].ii = ii
        /\ exit = "degenerate" =>
              \A i \in CallIndices("callback") : calls[i].ii < ii

C15_Witness ==
    /\ callback # None /\ Returned /\ exit = "converged" /\ ii = 1
    /\ Cardinality(CallIndices("callback")) = 2
    /\ calls[Len(calls) - 1].op = "callback"

\* a raising callback ends the run: reached as well
C15_WitnessRaise ==
    /\ pc = "raised" /\ LastCall.op = "callback" /\ LastCall.raised

Feasible(uv) == prox_uv(uv, uv_constraint).uv = uv

\* what func_d returned in outer iteration i
DictReturn(i) ==
    calls[CHOOSE j \in CallIndices("func_d") : calls[j].ii = i].ret[1]

\* C16 as stated: the bank the Dictionary Stage returns is projected before
\* it becomes the working bank, so the bank handed to every Sparse-Code
\* Stage call, the working bank after every dictionary update and the
\* returned bank are fixed points of the projector.
C16_ReprojectedBank ==
    /\ \A i \in CallIndices("update_z_multi") : Feasible(calls[i].uv)
    /\ pc \in {"callback", "check", "for", "lstsq", "done"} => Feasible(uv_hat)
    /\ Returned => Feasible(ReturnedUv)

\* C16 as amended: the driver calls the projector once, on the initial
\* bank before the loop; the bank the Dictionary Stage returns becomes the
\* working bank as returned: it is what the next Sparse-Code Stage call
\* receives and what the driver returns, projected or not.
C16_BankAsReturned ==
    /\ CallIndices("prox_uv") \subseteq {1}
    /\ uv_hat = LastReturn("func_d", LastReturn("prox_uv", <<>>))
    /\ \A i \in CallIndices("update_z_multi") :
          calls[i].uv = IF calls[i].ii = 0 THEN calls[1].ret[1]
                        ELSE DictReturn(calls[i].ii - 1)
    /\ Returned => ReturnedUv = LastReturn("func_d", calls[1].ret[1])

C16_Witness ==
    /\ Returned /\ ~Feasible(ReturnedUv)
    /\ \E i \in CallIndices("update_z_multi") :
          calls[i].ii = 1 /\ ~Feasible(calls[i].uv) /\ ~calls[i].raised

\* C17: the first thing the driver does is project the initial bank (the
\* copy of uv_init when supplied, otherwise the random draw); the projected
\* bank and the all-zero activations are what the initial objective is
\* recorded on, with elapsed time 0, before any stage is called, and what
\* the first Sparse-Code Stage call receives as atoms and warm start.
C17_InitializationOrder ==
    /\ calls # <<>> =>
          /\ calls[1].op = "prox_uv"
          /\ calls[1].uv \in Banks(n_atoms)
          /\ uv_init # None => calls[1].uv = uv_init[1]
          /\ \A i \in 2..Len(calls) : calls[i].op # "prox_uv"
    /\ Len(calls) >= 2 =>
          /\ ~calls[1].raised
          /\ calls[1].ret[1] = prox_uv(calls[1].uv, uv_constraint).uv
          /\ calls[2].op = "objective" /\ calls[2].ii = -1
          /\ calls[2].uv = calls[1].ret[1]
          /\ calls[2].Z = ZeroTensor
    /\ pobj # <<>> =>
          /\ ~calls[2].raised
          /\ pobj[1] = calls[2].ret[1]
          /\ times[1] = 0
    /\ \A i \in CallIndices("update_z_multi") \cup CallIndices("func_d") :
          i >= 3 /\ pobj # <<>>
    /\ \A i \in CallIndices("update_z_multi") :
          calls[i].ii = 0 =>
             /\ i = 3
             /\ calls[i].uv = calls[1].ret[1]
             /\ Feasible(calls[i].uv)
             /\ calls[i].Z = ZeroTensor

C17_Witness ==
    /\ uv_init # None /\ n_atoms > 0
    /\ Len(calls) >= 3 /\ calls[3].op = "update_z_multi" /\ ~calls[3].raised
    /\ calls[3].uv # uv_init[1]
    /\ calls[3].uv = prox_uv(uv_init[1], uv_constraint).uv
    /\ calls[3].Z = ZeroTensor

Terminated == pc \in {"done", "raised"}

\* an upper bound of the number of steps the driver still has to take
StepsLeft ==
    LET after == 5 * (n_iter - 1 - ii)
    IN  CASE pc = "init" -> 5 * n_iter + 4
          [] pc = "with" -> 5 * n_iter + 3
          [] pc = "for" -> after + 2
          [] pc = "update_z" -> after + 6
          [] pc = "update_d" -> after + 5
          [] pc = "callback" -> after + 4
          [] pc = "check" -> after + 3
          [] pc = "lstsq" -> 1
          [] OTHER -> 0

\* C18: as long as every stage call returns the driver terminates: every
\* step brings the end nearer; it starts at most n_iter outer iterations,
\* each with one Sparse-Code Stage call followed by at most one Dictionary
\* Stage call; and it leaves the loop with iterations still in the budget
\* only at the degenerate check, the convergence check or the target check.
C18_Termination ==
    /\ <>Terminated
    /\ [](Terminated \/ ENABLED Next)
    /\ [][StepsLeft' < StepsLeft]_vars
    /\ [](StepsLeft >= 0 /\ ii < Max(n_iter, 0))
    /\ [](/\ \A k \in 0..ii :
               Cardinality({i \in CallIndices("update_z_multi") :
                               calls[i].ii = k}) = IF k = ii /\ pc = "update_z"
                                                   THEN 0 ELSE 1
          /\ \A i \in CallIndices("update_z_multi") \cup CallIndices("func_d") :
               calls[i].ii \in 0..ii
          /\ \A i, j \in CallIndices("func_d") :
               calls[i].ii = calls[j].ii => i = j
          /\ \A i \in CallIndices("func_d") :
               \E j \in CallIndices("update_z_multi") :
                  j < i /\ calls[j].ii = calls[i].ii /\ ~calls[j].raised)
    /\ [][pc' = "lstsq" =>
            \/ pc = "for" /\ exit' = "budget" /\ ii = n_iter - 1
            \/ pc = "update_z" /\ exit' = "degenerate" /\ IsZeroTensor(Z_hat')
            \/ pc = "check" /\ exit' = "converged" /\ converged(pobj, eps)
            \/ pc = "check" /\ exit' = "target"
                  /\ target_reached(pobj, stopping_pobj)]_vars

C18_Witness ==
    /\ Returned /\ exit = "budget" /\ n_iter = 2 /\ ii = 1
    /\ Cardinality(CallIndices("update_z_multi")) = 2
    /\ Cardinality(CallIndices("func_d")) = 2

\* C19: every outer iteration that was followed by another one lowered the
\* objective by at least eps in its dictionary half-step and, with a floor
\* configured, ended with an objective not below the floor.
C19_ContinuedIterations ==
    \A i \in 0..(ii - 1) :
        /\ pobj[2 * i + 2] - pobj[2 * i + 3] >= eps
        /\ stopping_pobj # None => pobj[2 * i + 3] >= stopping_pobj[1]

C19_Witness ==
    /\ Returned /\ ii = 1 /\ exit = "converged" /\ stopping_pobj # None
    /\ pobj[2] - pobj[3] >= eps /\ pobj[3] >= stopping_pobj[1]
    /\ pobj[4] - pobj[5] < eps

\* the last Sparse-Code Stage call made before call i
SparseCallBefore(i) ==
    LET S == {j \in CallIndices("update_z_multi") : j < i}
    IN  calls[CHOOSE j \in S : \A k \in S : k <= j]

\* C20: every activation tensor that func_d or the callback receives is the
\* one the Sparse-Code Stage returned in the same outer iteration and has a
\* non-zero entry; the second objective evaluation of an iteration is made
\* on the same activations as the first, and the working activations stay
\* what the Sparse-Code Stage returned until the iteration ends.
C20_ActivationsHandedOn ==
    /\ \A i \in CallIndices("func_d") \cup CallIndices("callback") :
          LET z == SparseCallBefore(i) IN
          /\ z.ii = calls[i].ii /\ ~z.raised
          /\ calls[i].Z = z.ret[1]
          /\ \E k \in DOMAIN calls[i].Z : calls[i].Z[k] # 0
    /\ \A i \in LoopEvaluations :
          LET z == SparseCallBefore(i) IN
          z.ii = calls[i].ii /\ calls[i].Z = z.ret[1]
    /\ pc \in {"update_d", "callback", "check"} =>
          Z_hat = LastReturn("update_z_multi", ZeroTensor)

C20_Witness ==
    /\ pc = "check" /\ ii = 1
    /\ LastCall.op = "callback" /\ ~Feasible(LastCall.uv)
    /\ \E i \in CallIndices("update_z_multi") :
          calls[i].ii = 0 /\ calls[i].ret[1] # LastCall.Z
    /\ LastCall.Z = Z_hat
====
